---------------------------- MODULE Spec2Model ----------------------------
(***************************************************************************)
(* A model of skeincoin's src/core.cpp: the amount codec of                *)
(* CTxOutCompressor, CCoins::Spend, the proof-of-work checks of            *)
(* CBlockHeader, the Merkle tree of CBlock and CBlock::CheckBlock.         *)
(*                                                                         *)
(* Each part of the file is a small state machine of its own: it has its   *)
(* own variables, its own initial predicate and its own specification      *)
(* (SpecAmount, SpecCoins, SpecPow, SpecBlock, SpecMerkle), and leaves the *)
(* variables of the other parts at their idle values.                      *)
(***************************************************************************)
EXTENDS Integers, Sequences, FiniteSets

VARIABLES
    \* --- CTxOutCompressor: one round trip of an amount
    amtPc,      \* "start" | "compressed" | "done"
    amtIn,      \* the uint64 handed to CompressAmount
    amtEnc,     \* what CompressAmount returned
    amtDec,     \* what DecompressAmount returned for amtEnc
    \* --- CCoins: one coin entry and the calls made on it
    coins,      \* the CCoins object: nVersion, fCoinBase, nHeight, vout
    undo,       \* the caller's CTxInUndo, passed to Spend by reference
    spendOp,    \* "none" | "Spend(out,undo)" | "Spend(nPos)": the last call
    spendN,     \* the output index the last call was given
    spendRet,   \* what the last call returned
    spendLog,   \* the indexes of the successful calls, in order
    \* --- CBlockHeader: one header and the proof-of-work checks made on it
    fTestNet,   \* TestNet()
    hdr,        \* the CBlockHeader: nVersion, nBits, nNonce, auxpow
    powPc,      \* "ready" | "checked": whether powRet is a result for hdr
    powHeight,  \* the nHeight the last CheckProofOfWork was given
    powRet,     \* what it returned
    \* --- CBlock: one block, its Merkle tree and its structural check
    block,      \* the CBlock: header fields, vtx and the vMerkleTree cache
    adjTime,    \* GetAdjustedTime()
    blkPc,      \* the last call made on the block
    valState,   \* the CValidationState handed to CheckBlock
    blkRet,     \* what CheckBlock returned
    mbIndex,    \* the nIndex of the last GetMerkleBranch
    mbBranch,   \* the branch it returned
    mbRoot      \* what CheckMerkleBranch made of the branch

amtVars == <<amtPc, amtIn, amtEnc, amtDec>>
coinVars == <<coins, undo, spendOp, spendN, spendRet, spendLog>>
powVars == <<fTestNet, hdr, powPc, powHeight, powRet>>
blkVars == <<block, adjTime, blkPc, valState, blkRet, mbIndex, mbBranch, mbRoot>>

vars == <<amtVars, coinVars, powVars, blkVars>>

(***************************************************************************)
(* uint64 arithmetic.                                                      *)
(*                                                                         *)
(* TLC's integers are 32 bits wide, so a uint64 is kept as the sequence of *)
(* its decimal digits, least significant first and without leading zeros   *)
(* (0 is the empty sequence).  Every operation of the code on a uint64 is  *)
(* computed on the digits and reduced modulo 2^64, as the hardware does.   *)
(***************************************************************************)

\* 2^64 = 18446744073709551616, least significant digit first.
TwoTo64 == <<6,1,6,1,5,5,9,0,7,3,7,0,4,4,7,6,4,4,8,1>>

\* 2^64 - 1, the largest uint64.
U64Max == <<5,1,6,1,5,5,9,0,7,3,7,0,4,4,7,6,4,4,8,1>>

RECURSIVE Norm(_)
\* Drop the leading (most significant) zeros.
Norm(s) ==
    IF s = <<>> THEN <<>>
    ELSE IF s[Len(s)] = 0 THEN Norm(SubSeq(s, 1, Len(s) - 1))
    ELSE s

RECURSIVE Dec(_)
\* The digits of a small natural number.
Dec(i) == IF i = 0 THEN <<>> ELSE <<i % 10>> \o Dec(i \div 10)

RECURSIVE MulAdd(_, _, _)
\* s * k + c on digits, for 0 <= k <= 10 and a small carry c; not reduced.
MulAdd(s, k, c) ==
    IF s = <<>>
    THEN Dec(c)
    ELSE LET t == s[1] * k + c
         IN  <<t % 10>> \o MulAdd(Tail(s), k, t \div 10)

RECURSIVE SubB(_, _, _)
\* a - b - borrow on digits, for a >= b + borrow; not normalised.
SubB(a, b, borrow) ==
    IF a = <<>> THEN <<>>
    ELSE LET bd == IF b = <<>> THEN 0 ELSE b[1]
             t  == a[1] - bd - borrow
         IN  IF t < 0
             THEN <<t + 10>> \o SubB(Tail(a), IF b = <<>> THEN <<>> ELSE Tail(b), 1)
             ELSE <<t>> \o SubB(Tail(a), IF b = <<>> THEN <<>> ELSE Tail(b), 0)

Sub(a, b) == Norm(SubB(a, b, 0))

RECURSIVE LessFrom(_, _, _)
\* a < b for digit sequences of one length, compared from digit i downward.
LessFrom(a, b, i) ==
    IF i = 0 THEN FALSE
    ELSE IF a[i] # b[i] THEN a[i] < b[i]
    ELSE LessFrom(a, b, i - 1)

Less(a, b) ==
    IF Len(a) # Len(b) THEN Len(a) < Len(b) ELSE LessFrom(a, b, Len(a))

Leq(a, b) == ~Less(b, a)

RECURSIVE Wrap(_)
\* Reduction modulo 2^64.
Wrap(s) == IF Less(s, TwoTo64) THEN s ELSE Wrap(Sub(s, TwoTo64))

\* uint64 a * k and a + k for a small k, as the machine computes them.
U64Mul(a, k) == Wrap(Norm(MulAdd(a, k, 0)))
U64Add(a, k) == Wrap(Norm(MulAdd(a, 1, k)))
\* uint64 a - 1 (0 - 1 wraps to 2^64 - 1).
U64Pred(a) == IF a = <<>> THEN U64Max ELSE Sub(a, <<1>>)

RECURSIVE DivMod(_, _)
\* Quotient and remainder of a by a small k > 0; the quotient not normalised.
DivMod(a, k) ==
    IF a = <<>> THEN [q |-> <<>>, r |-> 0]
    ELSE LET hi == DivMod(Tail(a), k)
             t  == hi.r * 10 + a[1]
         IN  [q |-> <<t \div k>> \o hi.q, r |-> t % k]

U64Div(a, k) == Norm(DivMod(a, k).q)
U64Mod(a, k) == DivMod(a, k).r

(***************************************************************************)
(* CTxOutCompressor                                                        *)
(***************************************************************************)

RECURSIVE StripZerosCapTen(_, _)
\* StripZeros with the exponent capped at 10 instead of 9.
StripZerosCapTen(n, e) ==
    IF U64Mod(n, 10) = 0 /\ e < 10
    THEN StripZerosCapTen(U64Div(n, 10), e + 1)
    ELSE [n |-> n, e |-> e]

RECURSIVE StripZeros(_, _)
\* while (((n % 10) == 0) && e < 9) { n /= 10; e++; }
StripZeros(n, e) ==
    IF U64Mod(n, 10) = 0 /\ e < 9
    THEN StripZeros(U64Div(n, 10), e + 1)
    ELSE [n |-> n, e |-> e]

CompressAmount(n0) ==
    IF n0 = <<>> THEN <<>>
    ELSE LET s == StripZeros(n0, 0)
             e == s.e
         IN  IF e < 9
             THEN LET d == U64Mod(s.n, 10)
                      n == U64Div(s.n, 10)
                  \* 1 + (n*9 + d - 1)*10 + e
                  IN  U64Add(U64Add(U64Mul(U64Pred(U64Add(U64Mul(n, 9), d)), 10), 1), e)
             \* 1 + (n - 1)*10 + 9
             ELSE U64Add(U64Add(U64Mul(U64Pred(s.n), 10), 1), 9)

RECURSIVE TimesTen(_, _)
\* while (e) { n *= 10; e--; }
TimesTen(n, e) == IF e = 0 THEN n ELSE TimesTen(U64Mul(n, 10), e - 1)

DecompressAmount(x0) ==
    IF x0 = <<>> THEN <<>>
    ELSE LET x1 == U64Pred(x0)
             e  == U64Mod(x1, 10)
             x2 == U64Div(x1, 10)
             n  == IF e < 9
                   THEN LET d  == U64Mod(x2, 9) + 1
                            x3 == U64Div(x2, 9)
                        IN  U64Add(U64Mul(x3, 10), d)
                   ELSE U64Add(x2, 1)
         IN  TimesTen(n, e)

(***************************************************************************)
(* The amounts the round trip is run on: m * 10^k for small m and k (k     *)
(* beyond the cap of 9 on the exponent), the amounts around                *)
(* floor((2^64 - 1) / 9), and the largest uint64 values.                   *)
(***************************************************************************)
MaxMantissa == 25
MaxZeros == 11
MaxDelta == 12

\* m * 10^k on digits.
Shift(s, k) == IF s = <<>> THEN <<>> ELSE [i \in 1..k |-> 0] \o s

\* floor((2^64 - 1) / 9) = 2049638230412172401.
RoundTripMax == U64Div(U64Max, 9)

AmountInputs ==
    {Shift(Dec(m), k) : m \in 0..MaxMantissa, k \in 0..MaxZeros}
    \cup {Sub(RoundTripMax, Dec(j)) : j \in 0..MaxDelta}
    \cup {Norm(MulAdd(RoundTripMax, 1, j)) : j \in 1..MaxDelta}
    \cup {Sub(U64Max, Dec(j)) : j \in 0..MaxDelta}

AmountInit ==
    /\ amtPc = "start"
    /\ amtIn \in AmountInputs
    /\ amtEnc = <<>>
    /\ amtDec = <<>>

AmountIdle ==
    /\ amtPc = "idle"
    /\ amtIn = <<>>
    /\ amtEnc = <<>>
    /\ amtDec = <<>>

Compress ==
    /\ amtPc = "start"
    /\ amtEnc' = CompressAmount(amtIn)
    /\ amtPc' = "compressed"
    /\ UNCHANGED <<amtIn, amtDec, coinVars, powVars, blkVars>>

Decompress ==
    /\ amtPc = "compressed"
    /\ amtDec' = DecompressAmount(amtEnc)
    /\ amtPc' = "done"
    /\ UNCHANGED <<amtIn, amtEnc, coinVars, powVars, blkVars>>

AmountNext == Compress \/ Decompress

(***************************************************************************)
(* CCoins                                                                  *)
(***************************************************************************)

\* Bounds of the coin entries: outputs per entry, amounts, heights, versions.
MaxOut == 3
MaxValue == 1
MaxHeight == 1
MaxVersion == 1

\* CTxOut::SetNull: nValue = -1 and an empty script.
NullTxOut == [nValue |-> -1, scriptPubKey |-> <<>>]

\* CTxOut::IsNull
IsNull(txout) == txout.nValue = -1

\* The live outputs of the model: an amount, 0 included, and a one-byte script.
LiveTxOuts == {[nValue |-> v, scriptPubKey |-> <<81>>] : v \in 0..MaxValue}

RECURSIVE Cleanup(_)
\* CCoins::Cleanup: while (vout.size() > 0 && vout.back().IsNull()) vout.pop_back();
Cleanup(vout) ==
    IF Len(vout) > 0 /\ IsNull(vout[Len(vout)])
    THEN Cleanup(SubSeq(vout, 1, Len(vout) - 1))
    ELSE vout

\* CTxInUndo(txout): the output, with fCoinBase = false, nHeight = 0 and
\* nVersion = 0.
CTxInUndo(txout) ==
    [txout |-> txout, fCoinBase |-> FALSE, nHeight |-> 0, nVersion |-> 0]

\* CTxInUndo(): a null output and no metadata.
EmptyUndo == CTxInUndo(NullTxOut)

\* Spend without the test for an output that is already null.
SpendNoNullCheck(c, n, u) ==
    IF n >= Len(c.vout)
    THEN [ret |-> FALSE, coins |-> c, undo |-> u]
    ELSE LET u1 == CTxInUndo(c.vout[n + 1])
             v1 == Cleanup([c.vout EXCEPT ![n + 1] = NullTxOut])
             c1 == [c EXCEPT !.vout = v1]
         IN  IF Len(v1) = 0
             THEN [ret |-> TRUE, coins |-> c1,
                   undo |-> [u1 EXCEPT !.nHeight = c.nHeight,
                                       !.fCoinBase = c.fCoinBase,
                                       !.nVersion = c.nVersion]]
             ELSE [ret |-> TRUE, coins |-> c1, undo |-> u1]

\* Spend recording the entry's metadata in the undo object on every success.
SpendAlwaysMeta(c, n, u) ==
    IF n >= Len(c.vout)
    THEN [ret |-> FALSE, coins |-> c, undo |-> u]
    ELSE IF IsNull(c.vout[n + 1])
    THEN [ret |-> FALSE, coins |-> c, undo |-> u]
    ELSE LET u1 == CTxInUndo(c.vout[n + 1])
             v1 == Cleanup([c.vout EXCEPT ![n + 1] = NullTxOut])
         IN  [ret |-> TRUE, coins |-> [c EXCEPT !.vout = v1],
              undo |-> [u1 EXCEPT !.nHeight = c.nHeight,
                                  !.fCoinBase = c.fCoinBase,
                                  !.nVersion = c.nVersion]]

\* Spend without the call of Cleanup.
SpendNoCleanup(c, n, u) ==
    IF n >= Len(c.vout)
    THEN [ret |-> FALSE, coins |-> c, undo |-> u]
    ELSE IF IsNull(c.vout[n + 1])
    THEN [ret |-> FALSE, coins |-> c, undo |-> u]
    ELSE [ret |-> TRUE,
          coins |-> [c EXCEPT !.vout = [c.vout EXCEPT ![n + 1] = NullTxOut]],
          undo |-> CTxInUndo(c.vout[n + 1])]

\* bool CCoins::Spend(const COutPoint &out, CTxInUndo &undo), as a function of
\* the entry c, out.n and the undo object u it is handed: the value returned,
\* the entry and the undo object afterwards.  Output n of the code is
\* vout[n + 1] here.
Spend(c, n, u) ==
    IF n >= Len(c.vout)
    THEN [ret |-> FALSE, coins |-> c, undo |-> u]
    ELSE IF IsNull(c.vout[n + 1])
    THEN [ret |-> FALSE, coins |-> c, undo |-> u]
    ELSE LET u1 == CTxInUndo(c.vout[n + 1])
             v1 == Cleanup([c.vout EXCEPT ![n + 1] = NullTxOut])
             c1 == [c EXCEPT !.vout = v1]
         IN  IF Len(v1) = 0
             THEN [ret |-> TRUE, coins |-> c1,
                   undo |-> [u1 EXCEPT !.nHeight = c.nHeight,
                                       !.fCoinBase = c.fCoinBase,
                                       !.nVersion = c.nVersion]]
             ELSE [ret |-> TRUE, coins |-> c1, undo |-> u1]

\* bool CCoins::Spend(int nPos): COutPoint out(0, nPos) converts the int nPos to
\* the unsigned int out.n, then Spend on a local undo object, which is dropped.
\* A negative nPos becomes out.n = 2^32 + nPos, at least 2^31 and so not below
\* vout.size(): Spend returns false at its first test and changes nothing.
SpendPos(c, nPos) ==
    IF nPos < 0
    THEN [ret |-> FALSE, coins |-> c, undo |-> EmptyUndo]
    ELSE Spend(c, nPos, EmptyUndo)

\* The output vectors of an entry: up to MaxOut slots, each null or live, and
\* kept clean (empty, or ending in a live output).
VoutsOfLen(k) == [1..k -> LiveTxOuts \cup {NullTxOut}]
CleanVouts ==
    {v \in UNION {VoutsOfLen(k) : k \in 0..MaxOut} : Cleanup(v) = v}

CoinsInit ==
    /\ coins \in [nVersion : 1..MaxVersion, fCoinBase : BOOLEAN,
                  nHeight : 0..MaxHeight, vout : CleanVouts]
    /\ undo = EmptyUndo
    /\ spendOp = "none"
    /\ spendN = 0
    /\ spendRet = FALSE
    /\ spendLog = <<>>

CoinsIdle ==
    /\ coins = [nVersion |-> 0, fCoinBase |-> FALSE, nHeight |-> 0, vout |-> <<>>]
    /\ undo = EmptyUndo
    /\ spendOp = "idle"
    /\ spendN = 0
    /\ spendRet = FALSE
    /\ spendLog = <<>>

\* A call of Spend(out, undo) with out.n = n.
SpendOutpoint ==
    \E n \in 0..(MaxOut + 1) :
        LET r == Spend(coins, n, undo)
        IN  /\ coins' = r.coins
            /\ undo' = r.undo
            /\ spendOp' = "Spend(out,undo)"
            /\ spendN' = n
            /\ spendRet' = r.ret
            /\ spendLog' = IF r.ret THEN Append(spendLog, n) ELSE spendLog
            /\ UNCHANGED <<amtVars, powVars, blkVars>>

\* A call of Spend(nPos), negative positions included.
SpendIndex ==
    \E nPos \in (-2)..(MaxOut + 1) :
        LET r == SpendPos(coins, nPos)
        IN  /\ coins' = r.coins
            /\ spendOp' = "Spend(nPos)"
            /\ spendN' = nPos
            /\ spendRet' = r.ret
            /\ spendLog' = IF r.ret THEN Append(spendLog, nPos) ELSE spendLog
            /\ UNCHANGED <<undo, amtVars, powVars, blkVars>>

CoinsNext == SpendOutpoint \/ SpendIndex

(***************************************************************************)
(* Proof of work: CheckProofOfWork and CBlockHeader                        *)
(***************************************************************************)

\* Bounds of the headers: the hash values 0..MaxHash, the chain identities
\* 0..MaxChainID, and how far around each threshold the heights are drawn.
MaxHash == 3
MaxChainID == 2
HeightSpread == 1

INT_MAX == 2147483647

\* GetAuxPowStartBlock() off the test network.
AuxPowStartMain == 1000000

\* BLOCK_VERSION_AUXPOW = (1 << 8), BLOCK_VERSION_CHAIN_START = (1 << 16).
BLOCK_VERSION_AUXPOW == 256
BLOCK_VERSION_CHAIN_START == 65536

\* GetOurChainID(): this chain's identity.
OurChainID == 1

\* Params().ProofOfWorkLimit(), on the scale of the model's hash values.
ProofOfWorkLimit == 2

\* int GetAuxPowStartBlock()
GetAuxPowStartBlock(testnet) == IF testnet THEN 0 ELSE AuxPowStartMain

\* CBigNum::SetCompact: the top byte is the size in bytes, bit 23 the sign,
\* the low 23 bits the mantissa, which is the value's top three bytes.
SetCompact(nCompact) ==
    LET nSize  == nCompact \div 16777216
        nWord  == nCompact % 8388608
        fNeg   == (nCompact \div 8388608) % 2 = 1
        mag    == IF nSize <= 3
                  THEN nWord \div (256 ^ (3 - nSize))
                  ELSE nWord * (256 ^ (nSize - 3))
    IN  IF fNeg THEN 0 - mag ELSE mag

\* bool CheckProofOfWork(uint256 hash, unsigned int nBits)
CheckProofOfWork(hash, nBits) ==
    LET bnTarget == SetCompact(nBits)
    IN  IF bnTarget <= 0 \/ bnTarget > ProofOfWorkLimit
        THEN FALSE
        ELSE IF hash > bnTarget
        THEN FALSE
        ELSE TRUE

\* HashSkein over the header's fields nVersion .. nNonce: a fixed function of
\* those fields into the hash values of the model.  The auxiliary record is
\* not hashed.
HashSkein(nVersion, nBits, nNonce) == (nVersion + nBits + nNonce) % (MaxHash + 1)

\* uint256 CBlockHeader::GetHash() const
GetHash(h) == HashSkein(h.nVersion, h.nBits, h.nNonce)

\* CBlockHeader::GetChainID: nVersion / BLOCK_VERSION_CHAIN_START
GetChainID(h) == h.nVersion \div BLOCK_VERSION_CHAIN_START

GetOurChainID == OurChainID

\* CAuxPow::Check(hashAuxBlock, nChainID): whether the record's proof commits
\* to that hash in the slot of that chain.
AuxPowCheck(pow, hashAuxBlock, nChainID) ==
    pow.hashAuxBlock = hashAuxBlock /\ pow.nChainID = nChainID

\* CAuxPow::GetParentBlockHash
GetParentBlockHash(pow) == pow.parentBlockHash

\* void CBlockHeader::SetAuxPow(CAuxPow* pow); pow is <<>> for NULL and a
\* one-element sequence otherwise.
SetAuxPow(h, pow) ==
    LET fSet == (h.nVersion \div BLOCK_VERSION_AUXPOW) % 2 = 1
        v    == IF pow # <<>>
                THEN (IF fSet THEN h.nVersion ELSE h.nVersion + BLOCK_VERSION_AUXPOW)
                ELSE (IF fSet THEN h.nVersion - BLOCK_VERSION_AUXPOW ELSE h.nVersion)
    IN  [h EXCEPT !.nVersion = v, !.auxpow = pow]

Fail(msg) == [ret |-> FALSE, error |-> msg]
Pass == [ret |-> TRUE, error |-> ""]

\* CheckAuxProofOfWork testing the header's own hash against the target.
CheckAuxProofOfWorkOwnHash(h) ==
    IF ~AuxPowCheck(h.auxpow[1], GetHash(h), GetChainID(h))
    THEN Fail("AUX POW is not valid")
    ELSE IF ~CheckProofOfWork(GetHash(h), h.nBits)
    THEN Fail("AUX proof of work failed")
    ELSE Pass

\* CheckProofOfWork(nHeight) with an auxiliary record attached, at or above
\* the activation height: the record's own check, then the proof of work of
\* the parent block.
CheckAuxProofOfWork(h) ==
    IF ~AuxPowCheck(h.auxpow[1], GetHash(h), GetChainID(h))
    THEN Fail("AUX POW is not valid")
    ELSE IF ~CheckProofOfWork(GetParentBlockHash(h.auxpow[1]), h.nBits)
    THEN Fail("AUX proof of work failed")
    ELSE Pass

\* CheckFromAuxPowStart without the chain identity test.
CheckFromAuxPowStartAnyChain(h, nHeight, testnet) ==
    IF h.auxpow # <<>>
    THEN IF ~AuxPowCheck(h.auxpow[1], GetHash(h), GetChainID(h))
         THEN Fail("AUX POW is not valid")
         ELSE IF ~CheckProofOfWork(GetParentBlockHash(h.auxpow[1]), h.nBits)
         THEN Fail("AUX proof of work failed")
         ELSE Pass
    ELSE IF ~CheckProofOfWork(GetHash(h), h.nBits)
    THEN Fail("proof of work failed")
    ELSE Pass

\* CheckProofOfWork(nHeight) at or above the activation height.
CheckFromAuxPowStart(h, nHeight, testnet) ==
    IF ~testnet /\ nHeight # INT_MAX /\ GetChainID(h) # GetOurChainID
    THEN Fail("block does not have our chain ID")
    ELSE IF h.auxpow # <<>>
    THEN CheckAuxProofOfWork(h)
    ELSE IF ~CheckProofOfWork(GetHash(h), h.nBits)
    THEN Fail("proof of work failed")
    ELSE Pass

\* CheckBeforeAuxPowStart not looking at the auxiliary record.
CheckBeforeAuxPowStartAnyAux(h) ==
    IF ~CheckProofOfWork(GetHash(h), h.nBits)
    THEN Fail("proof of work failed")
    ELSE Pass

\* CheckProofOfWork(nHeight) below the activation height.
CheckBeforeAuxPowStart(h) ==
    IF h.auxpow # <<>>
    THEN Fail("AUX POW is not allowed at this block")
    ELSE IF ~CheckProofOfWork(GetHash(h), h.nBits)
    THEN Fail("proof of work failed")
    ELSE Pass

\* bool CBlockHeader::CheckProofOfWork(int nHeight) const
HeaderCheckProofOfWork(h, nHeight, testnet) ==
    IF nHeight >= GetAuxPowStartBlock(testnet)
    THEN CheckFromAuxPowStart(h, nHeight, testnet)
    ELSE CheckBeforeAuxPowStart(h)

\* nBits of size s and mantissa w.
Compact(s, w) == s * 16777216 + w

\* The nBits of the model: a zero target, a negative one, the smallest one,
\* the limit (written with sizes 3 and 2), and one above the limit.
PowBits ==
    {Compact(3, 0), Compact(3, 8388608 + 1), Compact(3, 1),
     Compact(3, ProofOfWorkLimit), Compact(2, 256 * ProofOfWorkLimit),
     Compact(3, ProofOfWorkLimit + 1)}

ChainIDs == 0..MaxChainID

\* The heights of the model: around 0, around the activation height off the
\* test network, and up to INT_MAX.
PowHeights ==
    (-1)..HeightSpread
    \cup {AuxPowStartMain + d : d \in (0 - HeightSpread)..HeightSpread}
    \cup {INT_MAX - d : d \in 0..HeightSpread}

\* The auxiliary records offered to a header: built for the hash the header
\* has once the record is attached or for another hash, for any chain, with a
\* parent block hash that is the smallest or the largest hash value.
AuxPows(h) ==
    LET own == GetHash(SetAuxPow(h, <<[hashAuxBlock |-> 0, nChainID |-> 0,
                                       parentBlockHash |-> 0]>>))
    IN  [hashAuxBlock : {own, (own + 1) % (MaxHash + 1)},
         nChainID : ChainIDs,
         parentBlockHash : {0, MaxHash}]

PowInit ==
    /\ fTestNet \in BOOLEAN
    /\ hdr \in [nVersion : {2 + c * BLOCK_VERSION_CHAIN_START : c \in ChainIDs},
                nBits : PowBits,
                nNonce : 0..MaxHash,
                auxpow : {<<>>}]
    /\ powPc = "ready"
    /\ powHeight = 0
    /\ powRet = Pass

PowIdle ==
    /\ fTestNet = FALSE
    /\ hdr = [nVersion |-> 0, nBits |-> 0, nNonce |-> 0, auxpow |-> <<>>]
    /\ powPc = "idle"
    /\ powHeight = 0
    /\ powRet = Pass

\* A call of SetAuxPow with a record.
AttachAuxPow ==
    \E pow \in AuxPows(hdr) :
        /\ hdr' = SetAuxPow(hdr, <<pow>>)
        /\ powPc' = "ready"
        /\ UNCHANGED <<fTestNet, powHeight, powRet, amtVars, coinVars, blkVars>>

\* A call of SetAuxPow(NULL).
ClearAuxPow ==
    /\ hdr' = SetAuxPow(hdr, <<>>)
    /\ powPc' = "ready"
    /\ UNCHANGED <<fTestNet, powHeight, powRet, amtVars, coinVars, blkVars>>

\* A call of CheckProofOfWork(nHeight) on the header.
CheckHeader ==
    \E nHeight \in PowHeights :
        /\ powRet' = HeaderCheckProofOfWork(hdr, nHeight, fTestNet)
        /\ powHeight' = nHeight
        /\ powPc' = "checked"
        /\ UNCHANGED <<fTestNet, hdr, amtVars, coinVars, blkVars>>

PowNext == AttachAuxPow \/ ClearAuxPow \/ CheckHeader

(***************************************************************************)
(* CBlock: the Merkle tree                                                 *)
(***************************************************************************)

\* Bounds of the blocks: transactions per checked block, and leaves per block
\* whose Merkle branches are taken.
MaxTx == 4
MaxLeaves == 5

\* The maximum block size in bytes and the maximum number of signature
\* operations of a block (MAX_BLOCK_SIZE / 50).
MAX_BLOCK_SIZE == 1000000
MAX_BLOCK_SIGOPS == 20000

\* uint256 0
ZeroHash == <<>>

\* Hash(a, b): the hash of the concatenation of two hashes, collision free.
\* A hash is 0 (the empty tuple), the hash of a serialized object (a 1-tuple)
\* or the hash of two hashes (a pair).
Hash(a, b) == <<a, b>>

\* SerializeHash(obj): the hash of an object's serialization, collision free.
SerializeHash(obj) == <<obj>>

\* uint256 CTransaction::GetHash() const
TxGetHash(tx) == SerializeHash(tx)

Min(a, b) == IF a < b THEN a ELSE b

RECURSIVE MerkleLevels(_, _, _)
\* The loop of BuildMerkleTree: the levels above the one of nSize hashes that
\* starts at offset j of the tree (entry k of the code is tree[k + 1] here).
MerkleLevels(tree, j, nSize) ==
    IF nSize > 1
    THEN LET level == [k \in 1..((nSize + 1) \div 2) |->
                          LET i  == 2 * (k - 1)
                              i2 == Min(i + 1, nSize - 1)
                          IN  Hash(tree[j + i + 1], tree[j + i2 + 1])]
         IN  MerkleLevels(tree \o level, j + nSize, (nSize + 1) \div 2)
    ELSE tree

\* uint256 CBlock::BuildMerkleTree() const: the vMerkleTree it leaves and the
\* root it returns.
BuildMerkleTree(vtx) ==
    LET leaves == [i \in 1..Len(vtx) |-> TxGetHash(vtx[i])]
        tree   == MerkleLevels(leaves, 0, Len(vtx))
    IN  [vMerkleTree |-> tree,
         root |-> IF tree = <<>> THEN ZeroHash ELSE tree[Len(tree)]]

\* nIndex ^ 1 for a non-negative nIndex.
Xor1(nIndex) == IF nIndex % 2 = 0 THEN nIndex + 1 ELSE nIndex - 1

RECURSIVE BranchLevels(_, _, _, _)
\* The loop of GetMerkleBranch.
BranchLevels(tree, nIndex, j, nSize) ==
    IF nSize > 1
    THEN LET i == Min(Xor1(nIndex), nSize - 1)
         IN  <<tree[j + i + 1]>>
             \o BranchLevels(tree, nIndex \div 2, j + nSize, (nSize + 1) \div 2)
    ELSE <<>>

\* std::vector<uint256> CBlock::GetMerkleBranch(int nIndex) const: the branch,
\* and the vMerkleTree afterwards (built when it was empty).
GetMerkleBranch(b, nIndex) ==
    LET tree == IF b.vMerkleTree = <<>>
                THEN BuildMerkleTree(b.vtx).vMerkleTree
                ELSE b.vMerkleTree
    IN  [vMerkleTree |-> tree,
         branch |-> BranchLevels(tree, nIndex, 0, Len(b.vtx))]

RECURSIVE BranchFoldNoOrder(_, _, _)
\* BranchFold with the running hash always on the left.
BranchFoldNoOrder(hash, vMerkleBranch, nIndex) ==
    IF vMerkleBranch = <<>> THEN hash
    ELSE BranchFoldNoOrder(Hash(hash, Head(vMerkleBranch)),
                           Tail(vMerkleBranch), nIndex \div 2)

RECURSIVE BranchFold(_, _, _)
\* The loop of CheckMerkleBranch.
BranchFold(hash, vMerkleBranch, nIndex) ==
    IF vMerkleBranch = <<>> THEN hash
    ELSE LET otherside == Head(vMerkleBranch)
         IN  BranchFold(IF nIndex % 2 = 1
                        THEN Hash(otherside, hash)
                        ELSE Hash(hash, otherside),
                        Tail(vMerkleBranch), nIndex \div 2)

\* uint256 CBlock::CheckMerkleBranch(hash, vMerkleBranch, nIndex)
CheckMerkleBranch(hash, vMerkleBranch, nIndex) ==
    IF nIndex = -1 THEN ZeroHash ELSE BranchFold(hash, vMerkleBranch, nIndex)

(***************************************************************************)
(* CBlock::CheckBlock                                                      *)
(***************************************************************************)

\* COutPoint::SetNull: hash 0 and n = (unsigned int) -1.
NullOutPoint == [hash |-> 0, n |-> -1]

\* CTransaction::IsCoinBase: exactly one input, and its prevout null.
IsCoinBase(tx) == Len(tx.vin) = 1 /\ tx.vin[1] = NullOutPoint

\* CValidationState(): valid, no penalty.
NewValidationState == [mode |-> "VALID", nDoS |-> 0]

\* CValidationState::DoS(level, ret): nDoS += level; mode = MODE_INVALID.
DoS(state, level) == [mode |-> "INVALID", nDoS |-> state.nDoS + level]

\* CheckTransaction(tx, state): the transaction's own structural check.  A
\* transaction of the model carries its verdict: nCheckDoS is -1 when it
\* passes and the penalty CheckTransaction records when it fails.
CheckTransaction(tx, state) ==
    IF tx.nCheckDoS = -1
    THEN [ret |-> TRUE, state |-> state]
    ELSE [ret |-> FALSE, state |-> DoS(state, tx.nCheckDoS)]

\* GetLegacySigOpCount(tx)
GetLegacySigOpCount(tx) == tx.nSigOps

RECURSIVE SumSigOps(_)
\* nSigOps += GetLegacySigOpCount(tx), over the transactions.
SumSigOps(vtx) ==
    IF vtx = <<>> THEN 0 ELSE GetLegacySigOpCount(Head(vtx)) + SumSigOps(Tail(vtx))

RECURSIVE SumSize(_)
\* The serialized size of the transactions.
SumSize(vtx) == IF vtx = <<>> THEN 0 ELSE Head(vtx).nSize + SumSize(Tail(vtx))

\* ::GetSerializeSize(block): the header, the transaction count, and the
\* transactions.
GetSerializeSize(b) == 81 + SumSize(b.vtx)

\* GetTxHash(i): vMerkleTree[i], once BuildMerkleTree has run.
GetTxHash(tree, i) == tree[i + 1]

\* The result of CheckBlock: what it returns, the validation state and the
\* vMerkleTree cache afterwards, and the message it logs.
CheckBlockResult(ret, state, tree, msg) ==
    [ret |-> ret, state |-> state, vMerkleTree |-> tree, error |-> msg]

\* HasDuplicateTx comparing only neighbouring transactions.
HasDuplicateTxAdjacent(tree, n) ==
    \E i \in 0..(n - 2) : GetTxHash(tree, i) = GetTxHash(tree, i + 1)

\* The duplicate check of CheckBlock: the hashes GetTxHash(i) of the n
\* transactions go into a set, which must then hold n of them.
HasDuplicateTx(tree, n) ==
    LET uniqueTx == {GetTxHash(tree, i) : i \in 0..(n - 1)}
    IN  Cardinality(uniqueTx) # n

\* CheckBlock from the coinbase check on: the checks on the transactions.
CheckBlockTransactions(b, state) ==
    LET vtx == b.vtx
        old == b.vMerkleTree
        badTx == {i \in 1..Len(vtx) : ~CheckTransaction(vtx[i], state).ret}
        firstBad == CHOOSE i \in badTx : \A k \in badTx : i <= k
        built == BuildMerkleTree(vtx)
        nSigOps == SumSigOps(vtx)
    IN  IF Len(vtx) = 0 \/ ~IsCoinBase(vtx[1])
        THEN CheckBlockResult(FALSE, DoS(state, 100), old,
                              "first tx is not coinbase")
        ELSE IF \E i \in 2..Len(vtx) : IsCoinBase(vtx[i])
        THEN CheckBlockResult(FALSE, DoS(state, 100), old,
                              "more than one coinbase")
        ELSE IF badTx # {}
        THEN CheckBlockResult(FALSE, CheckTransaction(vtx[firstBad], state).state,
                              old, "CheckTransaction failed")
        ELSE IF HasDuplicateTx(built.vMerkleTree, Len(vtx))
        THEN CheckBlockResult(FALSE, DoS(state, 100), built.vMerkleTree,
                              "duplicate transaction")
        ELSE IF nSigOps > MAX_BLOCK_SIGOPS
        THEN CheckBlockResult(FALSE, DoS(state, 100), built.vMerkleTree,
                              "out-of-bounds SigOpCount")
        ELSE IF b.hashMerkleRoot # built.root
        THEN CheckBlockResult(FALSE, DoS(state, 100), built.vMerkleTree,
                              "hashMerkleRoot mismatch")
        ELSE CheckBlockResult(TRUE, state, built.vMerkleTree, "")

\* CheckBlock testing the timestamp before the proof of work.
CheckBlockTimeFirst(b, state, now) ==
    IF Len(b.vtx) = 0 \/ Len(b.vtx) > MAX_BLOCK_SIZE
       \/ GetSerializeSize(b) > MAX_BLOCK_SIZE
    THEN CheckBlockResult(FALSE, DoS(state, 100), b.vMerkleTree,
                          "size limits failed")
    ELSE IF b.nTime > now + 2 * 60 * 60
    THEN CheckBlockResult(FALSE, state, b.vMerkleTree,
                          "block timestamp too far in the future")
    ELSE IF ~CheckProofOfWork(GetHash(b), b.nBits)
    THEN CheckBlockResult(FALSE, DoS(state, 50), b.vMerkleTree,
                          "proof of work failed")
    ELSE CheckBlockTransactions(b, state)

\* bool CBlock::CheckBlock(int nHeight, CValidationState &state) const, with
\* GetAdjustedTime() = now.  nHeight is not read.
CheckBlock(b, state, now) ==
    IF Len(b.vtx) = 0 \/ Len(b.vtx) > MAX_BLOCK_SIZE
       \/ GetSerializeSize(b) > MAX_BLOCK_SIZE
    THEN CheckBlockResult(FALSE, DoS(state, 100), b.vMerkleTree,
                          "size limits failed")
    ELSE IF ~CheckProofOfWork(GetHash(b), b.nBits)
    THEN CheckBlockResult(FALSE, DoS(state, 50), b.vMerkleTree,
                          "proof of work failed")
    ELSE IF b.nTime > now + 2 * 60 * 60
    THEN CheckBlockResult(FALSE, state, b.vMerkleTree,
                          "block timestamp too far in the future")
    ELSE CheckBlockTransactions(b, state)

(***************************************************************************)
(* The blocks of the model                                                 *)
(***************************************************************************)

\* A transaction: its inputs' prevouts, its lock time, and what the
\* collaborators of CheckBlock make of it (serialized size, legacy signature
\* operations, CheckTransaction's verdict).
Tx(vin, nLockTime, nSize, nSigOps, nCheckDoS) ==
    [vin |-> vin, nLockTime |-> nLockTime, nSize |-> nSize,
     nSigOps |-> nSigOps, nCheckDoS |-> nCheckDoS]

SomeOutPoint == [hash |-> 7, n |-> 0]

TxCoinbase == Tx(<<NullOutPoint>>, 0, 100, 1, -1)
TxA == Tx(<<SomeOutPoint>>, 1, 200, 2, -1)
TxB == Tx(<<SomeOutPoint>>, 2, 200, 2, -1)
\* fails CheckTransaction, with penalty 10
TxBad == Tx(<<SomeOutPoint>>, 3, 200, 2, 10)
\* as many signature operations as a whole block may have
TxHeavy == Tx(<<SomeOutPoint>>, 4, 200, MAX_BLOCK_SIGOPS, -1)
\* fills a block but for 300 bytes
TxHuge == Tx(<<SomeOutPoint>>, 5, MAX_BLOCK_SIZE - 300, 2, -1)

BlockTxs == {TxCoinbase, TxA, TxB, TxBad, TxHeavy, TxHuge}

SeqsUpTo(S, n) == UNION {[1..k -> S] : k \in 0..n}

RECURSIVE MerkleRootOf(_)
\* The Merkle root of a list of hashes, level by level: each level pairs the
\* hashes of the one below, the last with itself when their number is odd.
MerkleRootOf(hs) ==
    IF hs = <<>> THEN ZeroHash
    ELSE IF Len(hs) = 1 THEN hs[1]
    ELSE MerkleRootOf([k \in 1..((Len(hs) + 1) \div 2) |->
                          Hash(hs[2 * k - 1],
                               hs[IF 2 * k <= Len(hs) THEN 2 * k ELSE Len(hs)])])

TxHashes(vtx) == [i \in 1..Len(vtx) |-> TxGetHash(vtx[i])]

\* The Merkle roots a block of the model declares: that of its transactions,
\* and that of its transactions but the last.
DeclaredRoots(vtx) ==
    {MerkleRootOf(TxHashes(vtx)),
     MerkleRootOf(TxHashes(SubSeq(vtx, 1, Len(vtx) - 1)))}

NewBlock(vtx, nNonce, nTime, root) ==
    [nVersion |-> 2, nBits |-> Compact(3, ProofOfWorkLimit), nNonce |-> nNonce,
     nTime |-> nTime, hashMerkleRoot |-> root, vtx |-> vtx,
     vMerkleTree |-> <<>>]

BlockIdle ==
    /\ block = <<>>
    /\ adjTime = 0
    /\ blkPc = "idle"
    /\ valState = NewValidationState
    /\ blkRet = Pass
    /\ mbIndex = 0
    /\ mbBranch = <<>>
    /\ mbRoot = <<>>

\* A block as received: up to MaxTx transactions, any nonce, a time at or
\* past the two hours allowed, a declared Merkle root.
BlockInit ==
    /\ adjTime = 1000
    /\ \E vtx \in SeqsUpTo(BlockTxs, MaxTx), nNonce \in 0..MaxHash,
          nTime \in {1000 + 2 * 60 * 60, 1001 + 2 * 60 * 60} :
          \E root \in DeclaredRoots(vtx) :
              block = NewBlock(vtx, nNonce, nTime, root)
    /\ blkPc = "new"
    /\ valState = NewValidationState
    /\ blkRet = Pass
    /\ mbIndex = 0
    /\ mbBranch = <<>>
    /\ mbRoot = <<>>

\* Transaction k of a block whose branches are taken.
LeafTx(k) == Tx(<<SomeOutPoint>>, k, 200, 2, -1)

\* The transaction lists whose branches are taken: 1 to MaxLeaves
\* transactions, the one at position i either LeafTx(i), which no other
\* position holds, or LeafTx(0), which any may hold.
LeafLists ==
    UNION {{[i \in 1..k |-> IF f[i] THEN LeafTx(i) ELSE LeafTx(0)] :
               f \in [1..k -> BOOLEAN]} : k \in 1..MaxLeaves}

MerkleInit ==
    /\ adjTime = 1000
    /\ \E vtx \in LeafLists :
          block = NewBlock(vtx, 0, 1000, MerkleRootOf(TxHashes(vtx)))
    /\ blkPc = "new"
    /\ valState = NewValidationState
    /\ blkRet = Pass
    /\ mbIndex = 0
    /\ mbBranch = <<>>
    /\ mbRoot = <<>>

\* A call of BuildMerkleTree().
DoBuildMerkleTree ==
    /\ blkPc = "new"
    /\ block' = [block EXCEPT !.vMerkleTree = BuildMerkleTree(block.vtx).vMerkleTree]
    /\ blkPc' = "BuildMerkleTree"
    /\ UNCHANGED <<adjTime, valState, blkRet, mbIndex, mbBranch, mbRoot,
                   amtVars, coinVars, powVars>>

\* A call of GetMerkleBranch(nIndex) for a transaction of the block.
DoGetMerkleBranch ==
    /\ blkPc \in {"new", "BuildMerkleTree"}
    /\ \E nIndex \in 0..(Len(block.vtx) - 1) :
          LET r == GetMerkleBranch(block, nIndex)
          IN  /\ block' = [block EXCEPT !.vMerkleTree = r.vMerkleTree]
              /\ mbIndex' = nIndex
              /\ mbBranch' = r.branch
    /\ blkPc' = "GetMerkleBranch"
    /\ UNCHANGED <<adjTime, valState, blkRet, mbRoot, amtVars, coinVars, powVars>>

\* A call of CheckMerkleBranch on the hash of the transaction the branch was
\* taken for, with the branch and its index.
DoCheckMerkleBranch ==
    /\ blkPc = "GetMerkleBranch"
    /\ mbRoot' = CheckMerkleBranch(TxGetHash(block.vtx[mbIndex + 1]), mbBranch, mbIndex)
    /\ blkPc' = "CheckMerkleBranch"
    /\ UNCHANGED <<block, adjTime, valState, blkRet, mbIndex, mbBranch,
                   amtVars, coinVars, powVars>>

\* A call of CheckMerkleBranch with the branch and nIndex = -1.
DoCheckMerkleBranchNoLeaf ==
    /\ blkPc = "GetMerkleBranch"
    /\ mbRoot' = CheckMerkleBranch(TxGetHash(block.vtx[mbIndex + 1]), mbBranch, -1)
    /\ blkPc' = "CheckMerkleBranch(-1)"
    /\ UNCHANGED <<block, adjTime, valState, blkRet, mbIndex, mbBranch,
                   amtVars, coinVars, powVars>>

\* A call of CheckBlock(nHeight, state) with a fresh validation state.
DoCheckBlock ==
    /\ blkPc \in {"new", "BuildMerkleTree"}
    /\ LET r == CheckBlock(block, valState, adjTime)
       IN  /\ block' = [block EXCEPT !.vMerkleTree = r.vMerkleTree]
           /\ valState' = r.state
           /\ blkRet' = [ret |-> r.ret, error |-> r.error]
    /\ blkPc' = "CheckBlock"
    /\ UNCHANGED <<adjTime, mbIndex, mbBranch, mbRoot, amtVars, coinVars, powVars>>

BlockNext == DoBuildMerkleTree \/ DoCheckBlock

MerkleNext ==
    \/ DoBuildMerkleTree
    \/ DoGetMerkleBranch
    \/ DoCheckMerkleBranch
    \/ DoCheckMerkleBranchNoLeaf

(***************************************************************************)
(* Specifications                                                          *)
(***************************************************************************)

InitAmount == AmountInit /\ CoinsIdle /\ PowIdle /\ BlockIdle
InitCoins == CoinsInit /\ AmountIdle /\ PowIdle /\ BlockIdle
InitPow == PowInit /\ AmountIdle /\ CoinsIdle /\ BlockIdle
InitBlock == BlockInit /\ AmountIdle /\ CoinsIdle /\ PowIdle
InitMerkle == MerkleInit /\ AmountIdle /\ CoinsIdle /\ PowIdle

SpecAmount == InitAmount /\ [][AmountNext]_vars
SpecCoins == InitCoins /\ [][CoinsNext]_vars
SpecPow == InitPow /\ [][PowNext]_vars
SpecBlock == InitBlock /\ [][BlockNext]_vars
SpecMerkle == InitMerkle /\ [][MerkleNext]_vars

(***************************************************************************)
(* Claims                                                                  *)
(***************************************************************************)

\* C1 as stated: every uint64 survives the round trip
\* DecompressAmount(CompressAmount(x)), and CompressAmount(0) = 0.
C1_RoundTripAll ==
    /\ (amtPc = "done" => amtDec = amtIn)
    /\ (amtPc # "start" /\ amtIn = <<>> => amtEnc = <<>>)

\* C1 amended: every amount up to floor((2^64 - 1) / 9) = 2049638230412172401,
\* for which CompressAmount does not wrap modulo 2^64, survives the round
\* trip DecompressAmount(CompressAmount(x)), and CompressAmount(0) = 0.
C1_RoundTripInRange ==
    /\ (amtPc = "done" /\ Leq(amtIn, RoundTripMax) => amtDec = amtIn)
    /\ (amtPc # "start" /\ amtIn = <<>> => amtEnc = <<>>)

\* The round trip of the largest amount in range has completed.
C1_Witness ==
    amtPc = "done" /\ amtIn = RoundTripMax /\ amtEnc # amtIn /\ amtDec = amtIn

\* C2: CheckMerkleBranch on the hash of transaction i, the branch
\* GetMerkleBranch(i) returned and i gives the root BuildMerkleTree returns
\* for the block's transactions.
C2_BranchGivesRoot ==
    blkPc = "CheckMerkleBranch" => mbRoot = BuildMerkleTree(block.vtx).root

\* The branch of the last of five distinct transactions, which is paired
\* with itself on two levels, has been checked.
C2_Witness ==
    /\ blkPc = "CheckMerkleBranch"
    /\ Len(block.vtx) = 5
    /\ Cardinality({block.vtx[i] : i \in 1..5}) = 5
    /\ mbIndex = 4
    /\ Len(mbBranch) = 3
    /\ mbBranch[1] = TxGetHash(block.vtx[5])
    /\ mbRoot = MerkleRootOf(TxHashes(block.vtx))

\* The checks of CheckBlock, each stated on the block by itself.
SizeLimitsFail(b) ==
    Len(b.vtx) = 0 \/ 81 + SumSize(b.vtx) > MAX_BLOCK_SIZE
ProofOfWorkFails(b) ==
    LET target == SetCompact(b.nBits)
    IN  ~(0 < target /\ target <= ProofOfWorkLimit /\ GetHash(b) <= target)
TimestampFails(b) == b.nTime - adjTime > 7200
CoinbasePlacementFails(b) ==
    \/ Len(b.vtx) = 0
    \/ ~IsCoinBase(b.vtx[1])
    \/ \E i \in 2..Len(b.vtx) : IsCoinBase(b.vtx[i])
SomeTransactionFails(b) == \E i \in 1..Len(b.vtx) : b.vtx[i].nCheckDoS # -1
TwoTransactionsShareHash(b) ==
    \E i, j \in 1..Len(b.vtx) : i # j /\ TxGetHash(b.vtx[i]) = TxGetHash(b.vtx[j])
SigOpsFail(b) == SumSigOps(b.vtx) > MAX_BLOCK_SIGOPS
MerkleRootFails(b) == b.hashMerkleRoot # MerkleRootOf(TxHashes(b.vtx))

\* C3: a block with two transactions of one hash at different positions that
\* passes the size, proof-of-work, timestamp, coinbase and per-transaction
\* checks is rejected by CheckBlock with penalty 100.
C3_DuplicateRejected ==
    (/\ blkPc = "CheckBlock"
     /\ TwoTransactionsShareHash(block)
     /\ ~SizeLimitsFail(block)
     /\ ~ProofOfWorkFails(block)
     /\ ~TimestampFails(block)
     /\ ~CoinbasePlacementFails(block)
     /\ ~SomeTransactionFails(block))
    => (~blkRet.ret /\ valState.nDoS = 100)

\* CheckBlock has rejected [coinbase, A, B, B], whose declared Merkle root is
\* the recomputed one and also the root of [coinbase, A, B].
C3_Witness ==
    /\ blkPc = "CheckBlock"
    /\ block.vtx = <<TxCoinbase, TxA, TxB, TxB>>
    /\ ~ProofOfWorkFails(block)
    /\ ~TimestampFails(block)
    /\ block.hashMerkleRoot = BuildMerkleTree(block.vtx).root
    /\ block.hashMerkleRoot = MerkleRootOf(TxHashes(<<TxCoinbase, TxA, TxB>>))
    /\ ~blkRet.ret
    /\ blkRet.error = "duplicate transaction"
    /\ valState.nDoS = 100

\* The entry's metadata, and that of an undo object.
CoinsMeta(c) == <<c.nVersion, c.fCoinBase, c.nHeight>>
UndoMeta(u) == <<u.nVersion, u.fCoinBase, u.nHeight>>

\* C4: a call of Spend whose index is out of range of the entry's outputs,
\* or whose output is already null, returns false and leaves the entry as it
\* was.  (A negative position given to Spend(nPos) is the index 2^32 + nPos,
\* out of range.)
C4_FailedSpendLeavesEntry ==
    [][(spendN' < 0 \/ spendN' >= Len(coins.vout)
        \/ IsNull(coins.vout[spendN' + 1]))
       => (~spendRet' /\ coins' = coins)]_vars

\* A spend of an output that an earlier call had spent has failed, the
\* output still in range.
C4_Witness ==
    /\ spendOp = "Spend(out,undo)"
    /\ ~spendRet
    /\ spendLog = <<spendN>>
    /\ spendN < Len(coins.vout)
    /\ IsNull(coins.vout[spendN + 1])

\* C5: a successful Spend(out, undo) leaves in undo the output that was live
\* at the index; when the other outputs were all null before the call, undo
\* has the entry's (version, isCoinbase, creationHeight) and the entry's
\* outputs are empty afterwards; otherwise undo has no metadata
\* (0, false, 0) and the entry keeps outputs.
C5_UndoOfSpend ==
    [][(spendOp' = "Spend(out,undo)" /\ spendLog' # spendLog)
       => LET n == spendN'
              last == \A i \in 1..Len(coins.vout) :
                          i # n + 1 => IsNull(coins.vout[i])
          IN  /\ spendRet'
              /\ ~IsNull(coins.vout[n + 1])
              /\ undo'.txout = coins.vout[n + 1]
              /\ last => (UndoMeta(undo') = CoinsMeta(coins) /\ coins'.vout = <<>>)
              /\ ~last => (UndoMeta(undo') = <<0, FALSE, 0>> /\ coins'.vout # <<>>)
      ]_vars

\* The second spend on a coinbase entry of height 1 has removed its last
\* output: the entry is empty and undo has its metadata.
C5_Witness ==
    /\ spendOp = "Spend(out,undo)"
    /\ spendRet
    /\ Len(spendLog) = 2
    /\ spendLog[2] = spendN
    /\ coins.vout = <<>>
    /\ coins.fCoinBase /\ coins.nHeight = 1
    /\ ~IsNull(undo.txout)
    /\ UndoMeta(undo) = CoinsMeta(coins)

\* The activation height of auxiliary proof of work.
ActivationHeight == IF fTestNet THEN 0 ELSE AuxPowStartMain

\* C6 as stated: off the test network, at every height at or above the
\* activation height, CheckProofOfWork fails for a header whose chain
\* identity is not this chain's.
C6_ForeignChainFails ==
    (/\ powPc = "checked"
     /\ ~fTestNet
     /\ powHeight >= ActivationHeight
     /\ hdr.nVersion \div BLOCK_VERSION_CHAIN_START # OurChainID)
    => ~powRet.ret

\* C6 amended: off the test network, at every height at or above the
\* activation height other than INT_MAX, CheckProofOfWork fails for a header
\* whose chain identity is not this chain's.
C6_ForeignChainFailsBelowIntMax ==
    (/\ powPc = "checked"
     /\ ~fTestNet
     /\ powHeight >= ActivationHeight
     /\ powHeight # INT_MAX
     /\ hdr.nVersion \div BLOCK_VERSION_CHAIN_START # OurChainID)
    => ~powRet.ret

\* Off the test network, at the activation height, a header of another chain
\* has failed although its auxiliary record and the parent block's proof of
\* work are good.
C6_Witness ==
    /\ powPc = "checked"
    /\ ~fTestNet
    /\ powHeight = AuxPowStartMain
    /\ GetChainID(hdr) # OurChainID
    /\ hdr.auxpow # <<>>
    /\ AuxPowCheck(hdr.auxpow[1], GetHash(hdr), GetChainID(hdr))
    /\ CheckProofOfWork(hdr.auxpow[1].parentBlockHash, hdr.nBits)
    /\ ~powRet.ret
    /\ powRet.error = "block does not have our chain ID"

\* C7: below the activation height CheckProofOfWork(height) fails when an
\* auxiliary record is attached, and otherwise returns what the base
\* CheckProofOfWork returns for the header's own hash and nBits.
C7_BelowActivation ==
    (powPc = "checked" /\ powHeight < ActivationHeight)
    => powRet.ret = (hdr.auxpow = <<>> /\ CheckProofOfWork(GetHash(hdr), hdr.nBits))

\* Below the activation height a header has failed for its auxiliary record
\* alone: its own hash meets the target.
C7_Witness ==
    /\ powPc = "checked"
    /\ powHeight = AuxPowStartMain - 1
    /\ hdr.auxpow # <<>>
    /\ CheckProofOfWork(GetHash(hdr), hdr.nBits)
    /\ ~powRet.ret
    /\ powRet.error = "AUX POW is not allowed at this block"

\* The chain identity rule as the claim has it: on the test network, or the
\* header's chain identity is this chain's.
ChainIdentityRuleHolds == fTestNet \/ GetChainID(hdr) = OurChainID

\* C8 as stated: at or above the activation height, with an auxiliary record
\* attached and the chain identity rule satisfied, CheckProofOfWork succeeds
\* exactly when the record's Check(hash, this chain's identity) is true and
\* the base check passes for the record's parent block hash.
C8_AuxCheckedWithOwnChain ==
    (/\ powPc = "checked"
     /\ powHeight >= ActivationHeight
     /\ hdr.auxpow # <<>>
     /\ ChainIdentityRuleHolds)
    => powRet.ret =
           (/\ AuxPowCheck(hdr.auxpow[1], GetHash(hdr), OurChainID)
            /\ CheckProofOfWork(hdr.auxpow[1].parentBlockHash, hdr.nBits))

\* C8 amended: at or above the activation height, with an auxiliary record
\* attached and the chain identity rule satisfied, CheckProofOfWork succeeds
\* exactly when the record's Check(hash, the chain identity decoded from the
\* header's version) is true and the base check passes for the record's
\* parent block hash; the header's own hash is not tested.
C8_AuxCheckedWithHeaderChain ==
    (/\ powPc = "checked"
     /\ powHeight >= ActivationHeight
     /\ hdr.auxpow # <<>>
     /\ ChainIdentityRuleHolds)
    => powRet.ret =
           (/\ AuxPowCheck(hdr.auxpow[1], GetHash(hdr),
                           hdr.nVersion \div BLOCK_VERSION_CHAIN_START)
            /\ CheckProofOfWork(hdr.auxpow[1].parentBlockHash, hdr.nBits))

\* Off the test network a header of this chain has passed on its auxiliary
\* record, its own hash above the target.
C8_Witness ==
    /\ powPc = "checked"
    /\ ~fTestNet
    /\ powHeight = AuxPowStartMain + 1
    /\ GetChainID(hdr) = OurChainID
    /\ hdr.auxpow # <<>>
    /\ ~CheckProofOfWork(GetHash(hdr), hdr.nBits)
    /\ powRet.ret

\* The checks of CheckBlock that fail on a block, by their number in the
\* list (6, the building of the Merkle tree, cannot fail).
FailingChecks(b) ==
    {k \in 1..9 :
        \/ k = 1 /\ SizeLimitsFail(b)
        \/ k = 2 /\ ProofOfWorkFails(b)
        \/ k = 3 /\ TimestampFails(b)
        \/ k = 4 /\ CoinbasePlacementFails(b)
        \/ k = 5 /\ SomeTransactionFails(b)
        \/ k = 7 /\ TwoTransactionsShareHash(b)
        \/ k = 8 /\ SigOpsFail(b)
        \/ k = 9 /\ MerkleRootFails(b)}

FirstFailingCheck(b) == CHOOSE k \in FailingChecks(b) : \A m \in FailingChecks(b) : k <= m

\* The penalty of a failing check; that of 5 is the one CheckTransaction
\* records for the first transaction it fails.
PenaltyOfCheck(b, k) ==
    CASE k = 2 -> 50
      [] k = 3 -> 0
      [] k = 5 -> LET bad == {i \in 1..Len(b.vtx) : b.vtx[i].nCheckDoS # -1}
                  IN  b.vtx[CHOOSE i \in bad : \A m \in bad : i <= m].nCheckDoS
      [] OTHER -> 100

\* C9: CheckBlock accepts, with no penalty recorded, exactly when none of its
\* checks fails; otherwise it rejects with the penalty of the failing check
\* of the lowest number.
C9_FirstFailingCheckDecides ==
    blkPc = "CheckBlock"
    => IF FailingChecks(block) = {}
       THEN blkRet.ret /\ valState.nDoS = 0
       ELSE /\ ~blkRet.ret
            /\ valState.nDoS = PenaltyOfCheck(block, FirstFailingCheck(block))

\* CheckBlock has rejected, for its proof of work and with penalty 50, a
\* block that also fails the timestamp, coinbase and Merkle root checks.
C9_Witness ==
    /\ blkPc = "CheckBlock"
    /\ FailingChecks(block) = {2, 3, 4, 9}
    /\ ~blkRet.ret
    /\ blkRet.error = "proof of work failed"
    /\ valState.nDoS = 50

\* The indexes in a sequence of them.
Elements(log) == {log[i] : i \in 1..Len(log)}

\* C10: over the calls of Spend on an entry, a successful spend is of an
\* index no earlier call has spent, it nulls that output (or trims it away)
\* and leaves every other slot the entry keeps as it was, every other live
\* output kept at its index, and the entry's outputs are then empty or end in
\* a live output.
C10_SpendSequence ==
    [][spendLog' # spendLog
       => LET n == spendN'
          IN  /\ n \notin Elements(spendLog)
              /\ Len(coins'.vout) <= Len(coins.vout)
              /\ n + 1 <= Len(coins'.vout) => IsNull(coins'.vout[n + 1])
              /\ \A i \in 1..Len(coins.vout) :
                    (i # n + 1 /\ ~IsNull(coins.vout[i]))
                    => (i <= Len(coins'.vout) /\ coins'.vout[i] = coins.vout[i])
              /\ \A i \in 1..Len(coins'.vout) :
                    i # n + 1 => coins'.vout[i] = coins.vout[i]
              /\ (coins'.vout = <<>> \/ ~IsNull(coins'.vout[Len(coins'.vout)]))
      ]_vars

\* After two successful spends a third call, on an index already spent, has
\* failed, and the entry still has a live output.
C10_Witness ==
    /\ Len(spendLog) = 2
    /\ ~spendRet
    /\ spendN \in Elements(spendLog)
    /\ coins.vout # <<>>
    /\ ~IsNull(coins.vout[Len(coins.vout)])

=============================================================================
